---- MODULE Spec2Model ----
(***************************************************************************)
(* Capture sessions of the DataCollector repository.                       *)
(*                                                                         *)
(*   script = "storage" : CameraCaptureStorage  (camera_capture_storage.py)*)
(*   script = "fhd"     : MotionCapture1080p    (capture_fhd.py)           *)
(*                                                                         *)
(* The main thread of a session is a program counter pc:                   *)
(*   "new"      the constructor has not run yet                            *)
(*   "idle"     object constructed, capture_and_store/record not called    *)
(*   "loop"     top of `while self.running`, before cap.read()             *)
(*   "decide"   frame acquired and counted, before the save decision       *)
(*   "save"     decision made, before `if should_save: save_frame(frame)`  *)
(*   "preview"  before the preview / key handling of the iteration         *)
(*   "finally"  the try block was left, before the finally clause          *)
(*   "returned" capture_and_store/record has returned to main()            *)
(*   "exited"   the process has exited                                     *)
(* A POSIX signal runs signal_handler on the main thread between two       *)
(* steps.  Time is counted in tenths of a second; a frame is the number of *)
(* bright pixels of a synthetic scene, so that two frames differ in        *)
(* |a - b| pixels.                                                         *)
(***************************************************************************)
EXTENDS Integers, Sequences, FiniteSets, TLC

\* ---------------------------------------------------------------- bounds
MaxFrames == 3      \* frames a session acquires before the device fails
MaxClock == 4       \* last clock value of a session (tenths of a second)
MaxDt == 2          \* largest clock advance between two time.time() calls
MaxTrace == 5       \* frames of a trigger-policy trace
MaxTraceTime == 22  \* last timestamp of a trigger-policy trace
MaxFeed == 10       \* frames a synthetic feed delivers before it ends
MaxFeedStart == 12  \* latest timestamp of a feed's first frame (tenths of s)
MaxSpacing == 2     \* largest frame spacing of a feed (tenths of s)
MaxTelFrames == 62  \* frames acquired in a telemetry session
MaxTelStart == 1    \* latest clock value at the start of a telemetry session
MaxTickAppends == 2 \* frames acquired while one telemetry tick is computing
MaxPixels4k == 80     \* changed pixels of a 4K frame (16 per downscaled pixel)
MaxThreshold4k == 40  \* largest |motion_threshold| of a 4K motion session
MaxRuns == 3          \* process runs of capture_fhd.py
MaxScriptRuns == 2    \* ScriptRunner threads the controller starts
MaxQueue == 2         \* serial commands waiting for the GUI thread
MaxSelections == 3    \* device selections
MaxMinute == 6        \* last minute the wall clock reaches
MaxTwinFrames == 3    \* frames fed to the two motion policies side by side
MaxWindDownFrames == 3  \* frames of a session whose shutdown is followed
MaxTraceDt == 9     \* largest gap between two timestamps of a trace

\* ------------------------------------------------------- input domains
Scripts == {"storage", "fhd"}
SaveModes == {"interval", "all", "manual", "motion"}
Resolutions == {"1080p", "4k"}
ResolutionNames == {"1080p", "4k", "4K", "720p"}  \* resolution= arguments
RequestedFps == {15, 30, 60}    \* target_fps= arguments
DefaultFps == 60                \* target_fps when the caller passes none
FrameVals == {0, 32}            \* scenes: dark, 32 bright pixels
Intervals == {1, 2}             \* save_interval values of a session
TraceIntervals == {5, 10}       \* save_interval values of a policy trace
Thresholds == {-1, 16}          \* motion_threshold values a caller can enter
Cooldowns == {2}                \* motion_cooldown values
CamOutcomes == {"raise", "unopened", "mismatch", "ok"}
\* how configure_v4l2_settings goes: every control accepted, a control
\* refused (non-zero return code), a control timing out, v4l2-ctl missing,
\* an exception outside the loop
TuningOutcomes == {"applied", "refused", "timeout", "absent", "raise"}
WriterOutcomes == {"raise", "unopened", "ok"}
NoFrame == -1                   \* prev_frame = None
NoFile == -1                    \* no image written yet
NoStart == -1                   \* start_time = None
WindowCap == 60                 \* deque(maxlen=60)
StorageLevel == 25              \* cv2.threshold(diff, 25, ...) of capture_and_store
FhdLevel == 15                  \* cv2.threshold(diff, 15, ...) of detect_motion
GreyLevels == {0, 20, 40}       \* luminance of a pixel
NoImage == <<>>                 \* prev_frame = None, for frames given pixel by pixel
TwinThresholds == {0, 1}        \* motion_threshold of the side-by-side policies
Keys == {"none", "q", "s"}
NoScript == ""                  \* selected_script = ""
NoRunner == 0                   \* script_runner = None
NoDevice == ""                  \* port_name = "", serial_port closed or None
\* the lines a device sends
SerialLines == {"start", "stop", "START", "STOP", "invalid_command", ""}
Devices == {"ttyUSB0", "ttyACM0"}
Stopped == {"returned", "exited"}
InTry == {"loop", "decide", "save", "preview"}

VARIABLES
    script, save_mode, show_preview, resolution,
    save_interval, motion_threshold, motion_cooldown,
    req_resolution, req_fps, target_fps,
    v4l2_outcome,
    pc, exiting,
    cap, video_writer, running, log_thread,
    frame_count, saved_images, last_save_time, last_motion_save, prev_frame,
    clock, frame, current_time, should_save,
    \* history of the session, read by the properties only
    read_attempts, read_failed, video_frames, video_write_failed,
    frame_writes, save_failed, any_save_failed, last_key,
    last_file, ok_writes,
    consulted, msave_time,
    stop_calls, cap_release_calls, vw_release_calls, summaries,
    cam_outcome, vw_outcome, stop_requested, entered_running, error_logged,
    \* trigger-policy trace
    p_times, p_decisions, p_spacing,
    \* the timestamp window and the telemetry thread (log_stats)
    frame_times, start_time,
    t_pc, t_len, t_last, t_first, t_num, avg_state, late_lines,
    w_seen, tick_appends,
    \* the session folders of the runs of capture_fhd.py so far, and the
    \* minute the wall clock shows
    run_folders, minute,
    \* the motion policies of the two scripts side by side on one frame
    \* sequence: tw_n frames so far, the last at tw_now; s_ is
    \* capture_and_store, f_ is capture_and_record
    tw_n, tw_now, tw_alike,
    s_prev, s_last, s_save,
    f_prev, f_last, f_save,
    \* HostController: the script selected, the ScriptRunner held (its
    \* number), the ScriptRunner threads created so far and where each is,
    \* the calls of on_script_finished for each, the two buttons, the queue
    \* of signals waiting for the GUI thread, where the GUI thread is, and
    \* the command the last handle_serial_command ignored
    selected_script, script_runner, runs, r_pc, reports, run_btn, stop_btn,
    queue, h_pc, ignored,
    \* SerialMonitor: its fields, where its thread is, the device it read
    \* last, and on_device_selected in the GUI thread
    port_name, current_device, m_running, serial_port, m_pc, m_read,
    sel_pc, sel_arg, selections

request == <<req_resolution, req_fps>>
config == <<script, save_mode, show_preview, resolution,
            save_interval, motion_threshold, motion_cooldown,
            request, target_fps, v4l2_outcome>>
control == <<pc, exiting>>
resources == <<cap, video_writer, running, log_thread>>
counters == <<frame_count, saved_images>>
timing == <<last_save_time, last_motion_save>>
locals == <<frame, current_time, should_save>>
saveHist == <<frame_writes, save_failed>>
fileHist == <<any_save_failed, last_file, ok_writes>>
motionHist == <<consulted, msave_time>>
stopHist == <<stop_calls, cap_release_calls, vw_release_calls, summaries>>
flags == <<cam_outcome, vw_outcome, stop_requested, entered_running,
          error_logged>>
readHist == <<read_attempts, read_failed, video_frames, video_write_failed>>
window == <<frame_times, start_time>>
telemetry == <<t_pc, t_len, t_last, t_first, t_num, avg_state, w_seen,
               tick_appends, late_lines>>
sessions == <<run_folders, minute>>
\* what lives outside one capture session
twin == <<tw_n, tw_now, tw_alike, s_prev, s_last, s_save, f_prev, f_last,
          f_save>>
runner == <<selected_script, script_runner, runs, r_pc, reports, run_btn,
            stop_btn, queue, h_pc, ignored>>
monitor == <<port_name, current_device, m_running, serial_port, m_pc, m_read,
             sel_pc, sel_arg, selections>>
host == <<runner, monitor>>
outside == <<sessions, twin, host>>
trace == <<p_times, p_decisions, p_spacing, window, telemetry, outside>>

vars == <<config, control, resources, counters, timing, prev_frame, clock,
          locals, saveHist, fileHist, motionHist, last_key, stopHist, flags,
          readHist, trace>>

Abs(x) == IF x < 0 THEN -x ELSE x

\* ------------------------------------------------------ pure functions

\* a variant with a strict comparison
IntervalDueStrict(now, last, interval) == now - last > interval

\* `resolution.lower()`
Lower(name) == IF name = "4K" THEN "4k" ELSE name

\* self.resolution after CameraCaptureStorage.__init__: every name other
\* than "4k" becomes "1080p"
ConstructResolution(name) == IF Lower(name) = "4k" THEN "4k" ELSE "1080p"

\* self.target_fps after CameraCaptureStorage.__init__
ConstructFps(name, fps) == IF Lower(name) = "4k" THEN 30 ELSE fps

\* `current_time - self.last_save_time >= save_interval`
IntervalDue(now, last, interval) == now - last >= interval

\* a variant that never records the time of a save
NextLastSaveStale(now, last, interval) == last

\* self.last_save_time after the interval branch
NextLastSave(now, last, interval) ==
    IF IntervalDue(now, last, interval) THEN now ELSE last

\* a variant without any cooldown
CooldownOverAlways(now, last, cooldown) == TRUE

\* `current_time - last_motion_save >= motion_cooldown`
CooldownOver(now, last, cooldown) == now - last >= cooldown

\* countNonZero(threshold(absdiff(gray, prev_gray))) at full resolution
MotionPixels(f, prev) == Abs(f - prev)

\* the same count on the frames resized to 960x540 (1/16 of the 4K area)
MotionPixelsSmall(f, prev) == Abs((f \div 16) - (prev \div 16))

\* a variant whose division rounds towards zero
StorageMotionTruncating(res, f, prev, threshold) ==
    IF res = "4k"
    THEN MotionPixelsSmall(f, prev) >
             (IF threshold >= 0 THEN threshold \div 16
              ELSE -((-threshold) \div 16))
    ELSE MotionPixels(f, prev) > threshold

\* the motion branch of capture_and_store, once the cooldown is over;
\* `motion_threshold // 16` rounds towards minus infinity, as \div does
StorageMotion(res, f, prev, threshold) ==
    IF res = "4k"
    THEN MotionPixelsSmall(f, prev) > threshold \div 16
    ELSE MotionPixels(f, prev) > threshold

\* frames given pixel by pixel (a sequence of luminances)
Images == {<<a, b>> : a \in GreyLevels, b \in GreyLevels}

\* cv2.countNonZero(cv2.threshold(cv2.absdiff(gray, prev_gray), level, 255,
\* cv2.THRESH_BINARY)[1]): the pixels whose luminance differs by more than
\* level
ChangedPixels(f, g, level) ==
    Cardinality({p \in 1 .. Len(f) : Abs(f[p] - g[p]) > level})

\* a variant with a strict cooldown test
StorageTriggerStrict(f, prev, now, last, threshold, cooldown) ==
    /\ prev # NoImage
    /\ now - last > cooldown
    /\ ChangedPixels(f, prev, StorageLevel) > threshold

\* the motion branch of capture_and_store at 1080p: no look at the frame
\* without a previous one or during the cooldown
StorageTrigger(f, prev, now, last, threshold, cooldown) ==
    /\ prev # NoImage
    /\ CooldownOver(now, last, cooldown)
    /\ ChangedPixels(f, prev, StorageLevel) > threshold

\* capture_and_record: detect_motion on every frame, the cooldown gates
\* the save only
FhdTrigger(f, prev, now, last, threshold, cooldown) ==
    /\ (prev # NoImage /\ ChangedPixels(f, prev, FhdLevel) > threshold)
    /\ CooldownOver(now, last, cooldown)

\* a variant that compares the first frame as well
DetectMotionNoBaseline(f, prev, threshold) == MotionPixels(f, prev) > threshold

\* return value of MotionCapture1080p.detect_motion (prev = NoFrame: first call)
DetectMotion(f, prev, threshold) ==
    IF prev = NoFrame THEN FALSE ELSE MotionPixels(f, prev) > threshold

\* a variant that forgets the isOpened() check
InitializeCameraNoOpenCheck(outcome, res) ==
    CASE outcome = "raise" -> FALSE
      [] outcome = "mismatch" -> res # "4k"
      [] OTHER -> TRUE

\* return value of CameraCaptureStorage.initialize_camera
InitializeCameraStorage(outcome, res) ==
    CASE outcome = "raise" -> FALSE
      [] outcome = "unopened" -> FALSE
      [] outcome = "mismatch" -> res # "4k"
      [] OTHER -> TRUE

\* return value of MotionCapture1080p.initialize_camera
InitializeCameraFhd(outcome) ==
    CASE outcome = "raise" -> FALSE
      [] outcome = "unopened" -> FALSE
      [] OTHER -> TRUE

\* return value of configure_v4l2_settings
ConfigureV4l2Settings(t) == t \notin {"absent", "raise"}

\* a variant that gives up when the tuning did
InitializeCameraTunedStrict(t, outcome) ==
    ConfigureV4l2Settings(t) /\ InitializeCameraFhd(outcome)

\* return value of MotionCapture1080p.initialize_camera after the tuning
\* went as t: a False from configure_v4l2_settings is answered with a
\* warning only
InitializeCameraTuned(t, outcome) == InitializeCameraFhd(outcome)

\* a variant that fails to open without a word
CameraErrorLoggedQuietOpen(s, outcome, res) ==
    CASE outcome = "raise" -> TRUE
      [] outcome = "mismatch" -> s = "storage" /\ res = "4k"
      [] OTHER -> FALSE

\* initialize_camera calls self.logger.error: in the except clause, after a
\* failed isOpened(), and (CameraCaptureStorage) when 4K was not achieved
CameraErrorLogged(s, outcome, res) ==
    CASE outcome = "raise" -> TRUE
      [] outcome = "unopened" -> TRUE
      [] outcome = "mismatch" -> s = "storage" /\ res = "4k"
      [] OTHER -> FALSE

\* initialize_video_writer calls self.logger.error: in the except clause and
\* after a failed isOpened()
WriterErrorLogged(outcome) == outcome \in {"raise", "unopened"}

\* self.cap after initialize_camera
CapAfterInit(outcome) ==
    CASE outcome = "raise" -> "none"
      [] outcome = "unopened" -> "unopened"
      [] OTHER -> "open"

\* self.video_writer after initialize_video_writer
WriterAfterInit(outcome) ==
    CASE outcome = "raise" -> "none"
      [] outcome = "unopened" -> "unopened"
      [] OTHER -> "open"

\* return value of MotionCapture1080p.initialize_video_writer
InitializeVideoWriter(outcome) == outcome = "ok"

\* get_image_filename: a fixed prefix + the time of day of the call to
\* the millisecond + ".jpg"; nothing else (no counter, no existence test) enters the name
get_image_filename(now) == now

\* a variant that refuses the new entry when the window is full
DequeAppendKeepOldest(w, x, maxlen) ==
    IF Len(w) < maxlen THEN Append(w, x) ELSE w

\* deque(maxlen=n).append(x): when the deque is full its oldest (leftmost)
\* entry is discarded
DequeAppend(w, x, maxlen) ==
    IF Len(w) < maxlen THEN Append(w, x) ELSE Append(Tail(w), x)

\* `if self.start_time`: None and 0 are both false
Truthy(t) == t # NoStart /\ t # 0

\* a variant of the average rate with a guard on the elapsed time
AverageFpsGuarded(s, fc, now, start) == "ok"

\* how the average rate since start comes out: calculate_average_fps of
\* CameraCaptureStorage divides frame_count by time.time() - start_time
\* without looking at the divisor; MotionCapture1080p computes
\* `frame_count / elapsed if elapsed > 0 else 0` in stop_capture and no
\* average in log_stats
AverageFps(s, fc, now, start) ==
    IF s = "storage" /\ Truthy(start) /\ fc > 0 /\ now - start = 0
    THEN "ZeroDivisionError" ELSE "ok"

\* the final statistics of stop_capture raise
StopRaises(s, fc, now, start) ==
    fc > 0 /\ AverageFps(s, fc, now, start) = "ZeroDivisionError"

\* stop_capture reaches the log lines of the final summary: at least one
\* frame, and the average rate computed before them did not raise
SummaryLogged(s, fc, now, start) ==
    fc > 0 /\ AverageFps(s, fc, now, start) = "ok"

\* a variant that never appends to the video
WritesVideoNever(s, writer) == FALSE

\* `if self.video_writer: self.video_writer.write(frame)` (capture_and_record
\* only; CameraCaptureStorage records no video)
WritesVideo(s, writer) == s = "fhd" /\ writer # "none"

\* a variant in which no key saves
SaveKeyNever(s, key) == FALSE

\* `elif key == ord('s') or key == ord(' ')` of capture_and_store ("s" stands
\* for both keys); capture_and_record has no save key
SaveKey(s, key) == s = "storage" /\ key = "s"

\* a variant in which a failed write leaves the loop
AfterSaveFrameRaise(ok) == IF ok THEN "preview" ELSE "finally"

\* where the iteration goes on after `self.save_frame(frame)`: save_frame
\* catches every Exception and returns False, and the loop ignores the
\* value returned
AfterSaveFrame(ok) == "preview"

\* a variant that retries after a failed read (`continue`)
AfterReadFailureRetry == "loop"

\* where the loop goes after `if not ret:` (`break`)
AfterReadFailure == "finally"

\* ------------------------------------------------------------- Init
\* the state of a freshly constructed capture object
\* the fields as __init__ leaves them, and the histories empty
\* no run of capture_fhd.py has happened yet
OutsideInit ==
    /\ run_folders = <<>>
    /\ minute = 0
    /\ tw_n = 0
    /\ tw_now = 0
    /\ tw_alike = TRUE
    /\ s_prev = NoImage
    /\ s_last = 0
    /\ s_save = FALSE
    /\ f_prev = NoImage
    /\ f_last = 0
    /\ f_save = FALSE
    /\ selected_script = NoScript
    /\ script_runner = NoRunner
    /\ runs = 0
    /\ r_pc = [i \in 1 .. MaxScriptRuns |-> "new"]
    /\ reports = [i \in 1 .. MaxScriptRuns |-> 0]
    /\ run_btn = FALSE
    /\ stop_btn = FALSE
    /\ queue = <<>>
    /\ h_pc = "idle"
    /\ ignored = ""
    /\ port_name = NoDevice
    /\ current_device = NoDevice
    /\ m_running = FALSE
    /\ serial_port = NoDevice
    /\ m_pc = "off"
    /\ m_read = NoDevice
    /\ sel_pc = "idle"
    /\ sel_arg = NoDevice
    /\ selections = 0

InitialFields ==
    /\ exiting = FALSE
    /\ cap = "none"
    /\ video_writer = "none"
    /\ running = FALSE
    /\ log_thread = FALSE
    /\ frame_count = 0
    /\ saved_images = 0
    /\ last_save_time = 0
    /\ last_motion_save = 0
    /\ prev_frame = NoFrame
    /\ frame = NoFrame
    /\ current_time = 0
    /\ should_save = FALSE
    /\ read_attempts = 0
    /\ read_failed = FALSE
    /\ video_frames = 0
    /\ video_write_failed = FALSE
    /\ frame_writes = 0
    /\ save_failed = FALSE
    /\ any_save_failed = FALSE
    /\ last_key = "none"
    /\ last_file = NoFile
    /\ ok_writes = 0
    /\ consulted = FALSE
    /\ msave_time = NoFile
    /\ stop_calls = 0
    /\ cap_release_calls = 0
    /\ vw_release_calls = 0
    /\ summaries = 0
    /\ cam_outcome = "pending"
    /\ vw_outcome = "pending"
    /\ stop_requested = FALSE
    /\ entered_running = FALSE
    /\ error_logged = FALSE
    /\ p_times = <<>>
    /\ p_decisions = <<>>
    /\ frame_times = <<>>
    /\ start_time = NoStart
    /\ t_pc = "test"
    /\ late_lines = 0
    /\ t_len = 0
    /\ t_last = 0
    /\ t_first = 0
    /\ t_num = 0
    /\ avg_state = "none"
    /\ w_seen = {}
    /\ tick_appends = 0
    /\ OutsideInit

Constructed ==
    /\ pc = "idle"
    /\ InitialFields

Init ==
    /\ script \in Scripts
    /\ v4l2_outcome = "applied"
    /\ save_mode \in (IF script = "fhd" THEN {"motion"} ELSE SaveModes)
    /\ show_preview \in BOOLEAN
    /\ resolution \in (IF script = "fhd" THEN {"1080p"} ELSE Resolutions)
    /\ save_interval \in (IF save_mode = "interval" THEN Intervals ELSE {2})
    /\ motion_threshold \in
           (IF script = "storage" /\ save_mode = "motion"
            THEN Thresholds ELSE {16})
    /\ motion_cooldown \in Cooldowns
    /\ clock \in 0 .. MaxDt
    /\ Constructed
    /\ p_spacing = 0
    /\ req_resolution = resolution
    /\ req_fps = DefaultFps
    /\ target_fps = ConstructFps(resolution, DefaultFps)

\* ------------------------------------------------------ shared steps

\* a variant that counts every attempt, successful or not
save_frame_counts_attempts(ok) ==
    /\ saved_images' = saved_images + 1
    /\ ok_writes' = IF ok THEN ok_writes + 1 ELSE ok_writes
    /\ frame_writes' = frame_writes + 1
    /\ save_failed' = (save_failed \/ ~ok)
    /\ any_save_failed' = (any_save_failed \/ ~ok)
    /\ last_file' = IF ok THEN get_image_filename(clock) ELSE last_file

\* save_frame(frame): ok is the outcome of cv2.imwrite (FALSE also stands
\* for an exception inside the try of save_frame)
\* The file name is datetime.now() cut to the clock's finest unit, so two
\* calls in the same unit produce the same path; cv2.imwrite replaces a file
\* of the same name without any report.
\* ok_writes counts the calls in which cv2.imwrite returned True.
save_frame(ok) ==
    /\ saved_images' = IF ok THEN saved_images + 1 ELSE saved_images
    /\ ok_writes' = IF ok THEN ok_writes + 1 ELSE ok_writes
    /\ frame_writes' = frame_writes + 1
    /\ save_failed' = (save_failed \/ ~ok)
    /\ any_save_failed' = (any_save_failed \/ ~ok)
    /\ last_file' = IF ok THEN get_image_filename(clock) ELSE last_file

\* stop_capture() of either script (CameraCaptureStorage has no video
\* writer: video_writer stays "none" there)
stop_capture ==
    /\ running' = FALSE
    /\ cap' = IF cap = "none" THEN "none" ELSE "released"
    /\ cap_release_calls' =
           IF cap = "none" THEN cap_release_calls ELSE cap_release_calls + 1
    /\ video_writer' = IF video_writer = "none" THEN "none" ELSE "released"
    /\ vw_release_calls' =
           IF video_writer = "none" THEN vw_release_calls
           ELSE vw_release_calls + 1
    /\ summaries' =
           IF SummaryLogged(script, frame_count, clock, start_time)
           THEN summaries + 1 ELSE summaries
    /\ stop_calls' = stop_calls + 1
    /\ UNCHANGED log_thread

\* --------------------------------------------------------- actions

\* capture_and_store up to the start of the try block
StartCaptureStorage ==
    /\ pc = "idle"
    /\ script = "storage"
    /\ \E outcome \in CamOutcomes :
        /\ cam_outcome' = outcome
        /\ cap' = CapAfterInit(outcome)
        /\ error_logged' = CameraErrorLogged(script, outcome, resolution)
        /\ IF InitializeCameraStorage(outcome, resolution)
           THEN /\ running' = TRUE
                /\ start_time' = clock
                /\ log_thread' = TRUE
                /\ entered_running' = TRUE
                /\ pc' = "loop"
           ELSE /\ pc' = "returned"
                /\ UNCHANGED <<running, start_time, log_thread,
                               entered_running>>
    /\ UNCHANGED <<config, exiting, video_writer, counters, timing,
                   prev_frame, clock, locals, saveHist, fileHist, motionHist,
                   last_key, stopHist, readHist, vw_outcome, stop_requested,
                   p_times, p_decisions, p_spacing, outside, frame_times, telemetry>>

\* capture_and_record up to the start of the try block
StartCaptureFhd ==
    /\ pc = "idle"
    /\ script = "fhd"
    /\ \E outcome \in CamOutcomes :
        /\ cam_outcome' = outcome
        /\ cap' = CapAfterInit(outcome)
        /\ IF ~InitializeCameraTuned(v4l2_outcome, outcome)
           THEN /\ pc' = "returned"
                /\ error_logged' =
                       CameraErrorLogged(script, outcome, resolution)
                /\ UNCHANGED <<video_writer, vw_outcome, running, start_time,
                               log_thread, entered_running>>
           ELSE \E w \in WriterOutcomes :
                /\ vw_outcome' = w
                /\ error_logged' = WriterErrorLogged(w)
                /\ video_writer' = WriterAfterInit(w)
                /\ IF InitializeVideoWriter(w)
                   THEN /\ running' = TRUE
                        /\ start_time' = clock
                        /\ log_thread' = TRUE
                        /\ entered_running' = TRUE
                        /\ pc' = "loop"
                   ELSE /\ pc' = "returned"
                        /\ UNCHANGED <<running, start_time, log_thread,
                                       entered_running>>
    /\ UNCHANGED <<config, exiting, counters, timing, prev_frame, clock,
                   locals, saveHist, fileHist, motionHist, last_key, stopHist,
                   readHist, stop_requested, p_times, p_decisions, p_spacing, outside,
                   frame_times, telemetry>>

\* `while self.running:` and the read, timestamp and counting of one frame;
\* capture_and_record also appends the frame to the video here
ReadFrame ==
    /\ pc = "loop"
    /\ IF ~running
       THEN /\ pc' = "finally"
            /\ UNCHANGED <<clock, locals, counters, saveHist, readHist,
                           stop_requested, error_logged, consulted,
                           last_key>>
       ELSE \E ret \in BOOLEAN :
            /\ read_attempts' = read_attempts + 1
            /\ IF ~ret
               THEN /\ read_failed' = TRUE
                    /\ stop_requested' = TRUE
                    /\ error_logged' = TRUE
                    /\ pc' = AfterReadFailure
                    /\ UNCHANGED <<clock, locals, counters, saveHist,
                                   video_frames, video_write_failed,
                                   consulted, last_key>>
               ELSE /\ frame_count < MaxFrames
                    /\ \E f \in FrameVals, dt \in 0 .. MaxDt :
                        /\ clock + dt <= MaxClock
                        /\ clock' = clock + dt
                        /\ current_time' = clock + dt
                        /\ frame' = f
                    /\ frame_count' = frame_count + 1
                    /\ video_frames' =
                           IF WritesVideo(script, video_writer)
                           THEN video_frames + 1 ELSE video_frames
                    /\ \E wrote \in BOOLEAN :
                           video_write_failed' =
                              IF WritesVideo(script, video_writer)
                              THEN video_write_failed \/ ~wrote
                              ELSE video_write_failed
                    /\ frame_writes' = 0
                    /\ save_failed' = FALSE
                    /\ consulted' = FALSE
                    /\ last_key' = "none"
                    /\ pc' = "decide"
                    /\ UNCHANGED <<should_save, saved_images, read_failed,
                                   stop_requested, error_logged>>
    /\ UNCHANGED <<config, exiting, resources, timing, prev_frame, stopHist,
                   cam_outcome, vw_outcome, entered_running, trace, fileHist,
                   msave_time>>

\* the save decision of capture_and_store
DecideStorage ==
    /\ pc = "decide"
    /\ script = "storage"
    /\ CASE save_mode = "interval" ->
              /\ should_save' =
                     IntervalDue(current_time, last_save_time, save_interval)
              /\ last_save_time' =
                     NextLastSave(current_time, last_save_time, save_interval)
              /\ UNCHANGED <<last_motion_save, consulted>>
         [] save_mode = "all" ->
              /\ should_save' = TRUE
              /\ UNCHANGED <<timing, consulted>>
         [] save_mode = "motion" /\ prev_frame # NoFrame ->
              LET hit ==
                    /\ CooldownOver(current_time, last_motion_save,
                                    motion_cooldown)
                    /\ StorageMotion(resolution, frame, prev_frame,
                                     motion_threshold)
              IN  /\ should_save' = hit
                  /\ last_motion_save' =
                         IF hit THEN current_time ELSE last_motion_save
                  /\ consulted' = CooldownOver(current_time, last_motion_save,
                                               motion_cooldown)
                  /\ UNCHANGED last_save_time
         [] OTHER ->
              /\ should_save' = FALSE
              /\ UNCHANGED <<timing, consulted>>
    /\ pc' = "save"
    /\ UNCHANGED <<config, exiting, resources, counters, prev_frame, clock,
                   frame, current_time, saveHist, fileHist, msave_time,
                   last_key, stopHist, flags, readHist, trace>>

\* a variant that leaves the baseline alone while the cooldown is active
DecideFhdInCooldown ==
    /\ pc = "decide"
    /\ script = "fhd"
    /\ should_save' =
           (/\ DetectMotion(frame, prev_frame, motion_threshold)
            /\ CooldownOver(current_time, last_motion_save, motion_cooldown))
    /\ prev_frame' =
           IF CooldownOver(current_time, last_motion_save, motion_cooldown)
           THEN frame ELSE prev_frame
    /\ consulted' = (prev_frame # NoFrame)
    /\ pc' = "save"
    /\ UNCHANGED <<config, exiting, resources, counters, timing, clock,
                   frame, current_time, saveHist, fileHist, msave_time,
                   last_key, stopHist, flags, readHist, trace>>

\* detect_motion(frame) and the save condition of capture_and_record
DecideFhd ==
    /\ pc = "decide"
    /\ script = "fhd"
    /\ should_save' =
           (/\ DetectMotion(frame, prev_frame, motion_threshold)
            /\ CooldownOver(current_time, last_motion_save, motion_cooldown))
    /\ prev_frame' = frame
    /\ consulted' = (prev_frame # NoFrame)
    /\ pc' = "save"
    /\ UNCHANGED <<config, exiting, resources, counters, timing, clock,
                   frame, current_time, saveHist, fileHist, msave_time,
                   last_key, stopHist, flags, readHist, trace>>

\* `if should_save: self.save_frame(frame)`; capture_and_record also sets
\* last_motion_save, whatever save_frame returned
SaveStep ==
    /\ pc = "save"
    /\ IF should_save
       THEN /\ \E ok \in BOOLEAN :
                   /\ save_frame(ok)
                   /\ pc' = AfterSaveFrame(ok)
            /\ last_motion_save' =
                   IF script = "fhd" THEN current_time ELSE last_motion_save
            /\ msave_time' =
                   IF save_mode = "motion" THEN current_time ELSE msave_time
       ELSE /\ pc' = "preview"
            /\ UNCHANGED <<saved_images, saveHist, fileHist,
                           last_motion_save, msave_time>>
    /\ UNCHANGED <<config, exiting, resources, frame_count, last_save_time,
                   prev_frame, clock, locals, consulted, last_key, stopHist, flags,
                   readHist, trace>>

\* the preview block and the end of the iteration: key is cv2.waitKey(1);
\* capture_and_store saves on 's'/SPACE and then copies the frame to
\* prev_frame, capture_and_record only knows 'q'
Preview ==
    /\ pc = "preview"
    /\ \E key \in (IF show_preview THEN Keys ELSE {"none"}) :
        /\ last_key' = key
        /\ IF key = "q"
           THEN /\ pc' = "finally"
                /\ stop_requested' = TRUE
                /\ UNCHANGED <<saved_images, saveHist, fileHist, prev_frame>>
           ELSE /\ IF SaveKey(script, key)
                   THEN \E ok \in BOOLEAN : save_frame(ok)
                   ELSE UNCHANGED <<saved_images, saveHist, fileHist>>
                /\ prev_frame' =
                       IF script = "storage" THEN frame ELSE prev_frame
                /\ pc' = "loop"
                /\ UNCHANGED stop_requested
    /\ UNCHANGED <<config, exiting, resources, frame_count, timing, clock,
                   locals, motionHist, stopHist, cam_outcome, vw_outcome,
                   entered_running, error_logged, readHist, trace>>

\* `finally: self.stop_capture()`, then `return True` or, when the handler's
\* SystemExit is propagating, the end of the process
Finally ==
    /\ pc = "finally"
    /\ stop_capture
    /\ pc' = IF exiting THEN "exited" ELSE "returned"
    /\ UNCHANGED <<config, exiting, counters, timing, prev_frame, clock,
                   locals, saveHist, fileHist, motionHist, last_key, flags,
                   readHist, trace>>

\* a variant whose handler returns to the interrupted statement
SignalReturns ==
    /\ pc # "exited"
    /\ stop_capture
    /\ LET caught ==
             /\ pc \in InTry
             /\ StopRaises(script, frame_count, clock, start_time)
       IN  /\ exiting' = IF caught THEN exiting ELSE TRUE
           /\ error_logged' = (error_logged \/ caught)
    /\ pc' = IF pc \in InTry THEN pc ELSE "exited"
    /\ stop_requested' = (stop_requested \/ running)
    /\ UNCHANGED <<config, counters, timing, prev_frame, clock, locals,
                   saveHist, fileHist, motionHist, last_key, cam_outcome,
                   vw_outcome, entered_running, readHist, trace>>

\* signal_handler: stop_capture() then sys.exit(0); SystemExit is no
\* Exception, so inside the try block only the finally clause still runs.
\* A signal taken at "finally" (before the clause has called stop_capture),
\* at "idle" or at "returned" ends the process with the handler's
\* stop_capture as the last one.  When the handler's stop_capture raises,
\* sys.exit(0) is not reached: inside the try block `except Exception`
\* logs the error and the finally clause follows, elsewhere the exception
\* ends the process.
Signal ==
    /\ pc # "exited"
    /\ stop_capture
    /\ LET caught ==
             /\ pc \in InTry
             /\ StopRaises(script, frame_count, clock, start_time)
       IN  /\ exiting' = IF caught THEN exiting ELSE TRUE
           /\ error_logged' = (error_logged \/ caught)
    /\ pc' = IF pc \in InTry THEN "finally" ELSE "exited"
    /\ stop_requested' = (stop_requested \/ running)
    /\ UNCHANGED <<config, counters, timing, prev_frame, clock, locals,
                   saveHist, fileHist, motionHist, last_key, cam_outcome,
                   vw_outcome, entered_running, readHist, trace>>

\* main(): `return 0 if success else 1`, then sys.exit(exit_code)
Exit ==
    /\ pc = "returned"
    /\ pc' = "exited"
    /\ UNCHANGED <<config, exiting, resources, counters, timing, prev_frame,
                   clock, locals, saveHist, fileHist, motionHist, last_key,
                   stopHist, flags, readHist, trace>>

MainThread ==
    \/ StartCaptureStorage
    \/ StartCaptureFhd
    \/ ReadFrame
    \/ DecideStorage
    \/ DecideFhd
    \/ SaveStep
    \/ Preview
    \/ Finally
    \/ Exit

Next == MainThread \/ Signal

Spec == Init /\ [][Next]_vars

\* the main thread is never starved: Python runs it until the process
\* exits, and cap.read() returns (with a frame or with ret = False)
LiveSpec == Spec /\ WF_vars(MainThread)

\* ------------------------------------------- trigger-policy traces
\* The interval branch of capture_and_store applied to a sequence of frame
\* timestamps: p_times are the timestamps, p_decisions the values of
\* should_save, in acquisition order.
PolicyInit ==
    /\ script = "storage"
    /\ v4l2_outcome = "applied"
    /\ save_mode = "interval"
    /\ show_preview = FALSE
    /\ resolution = "1080p"
    /\ save_interval \in TraceIntervals
    /\ motion_threshold = 16
    /\ motion_cooldown \in Cooldowns
    /\ clock = 0
    /\ Constructed
    /\ p_spacing = 0
    /\ req_resolution = resolution
    /\ req_fps = DefaultFps
    /\ target_fps = ConstructFps(resolution, DefaultFps)

\* `current_time = time.time()` and the interval branch, for one frame
PolicyFrame ==
    /\ Len(p_times) < MaxTrace
    /\ \E dt \in 0 .. MaxTraceDt :
        LET now == clock + dt
        IN  /\ now <= MaxTraceTime
            /\ clock' = now
            /\ current_time' = now
            /\ should_save' = IntervalDue(now, last_save_time, save_interval)
            /\ last_save_time' =
                   NextLastSave(now, last_save_time, save_interval)
            /\ p_times' = Append(p_times, now)
            /\ p_decisions' =
                   Append(p_decisions,
                          IntervalDue(now, last_save_time, save_interval))
    /\ UNCHANGED <<config, control, resources, counters, last_motion_save,
                   prev_frame, frame, saveHist, fileHist, motionHist, last_key,
                   stopHist, flags, readHist, p_spacing, outside, window, telemetry>>

PolicyNext == PolicyFrame

SpecPolicy == PolicyInit /\ [][PolicyNext]_vars

\* ---------------------------------------------- end-to-end frame feed
\* A whole session of capture_and_store (1080p, interval mode, no preview)
\* on a synthetic camera: cap.read() delivers MaxFeed frames whose
\* timestamps are p_spacing apart, the first at the initial clock value, and
\* then returns ret = False.  Time is in tenths of a second.
FeedInit ==
    /\ script = "storage"
    /\ v4l2_outcome = "applied"
    /\ save_mode = "interval"
    /\ show_preview = FALSE
    /\ resolution = "1080p"
    /\ save_interval \in TraceIntervals
    /\ motion_threshold = 16
    /\ motion_cooldown \in Cooldowns
    /\ clock \in 0 .. MaxFeedStart
    /\ Constructed
    /\ p_spacing \in 1 .. MaxSpacing
    /\ req_resolution = resolution
    /\ req_fps = DefaultFps
    /\ target_fps = ConstructFps(resolution, DefaultFps)

\* `ret, frame = self.cap.read()` ... `self.frame_count += 1` on the feed
FeedRead ==
    /\ pc = "loop"
    /\ running
    /\ read_attempts' = read_attempts + 1
    /\ IF frame_count >= MaxFeed
       THEN /\ read_failed' = TRUE
            /\ stop_requested' = TRUE
            /\ error_logged' = TRUE
            /\ pc' = AfterReadFailure
            /\ UNCHANGED <<clock, locals, counters, saveHist, video_frames,
                           video_write_failed, consulted, last_key>>
       ELSE LET now == IF frame_count = 0 THEN clock ELSE clock + p_spacing
            IN  /\ clock' = now
                /\ current_time' = now
                /\ \E f \in FrameVals : frame' = f
                /\ frame_count' = frame_count + 1
                /\ video_frames' =
                       IF WritesVideo(script, video_writer)
                       THEN video_frames + 1 ELSE video_frames
                /\ UNCHANGED video_write_failed
                /\ frame_writes' = 0
                /\ save_failed' = FALSE
                /\ consulted' = FALSE
                /\ last_key' = "none"
                /\ pc' = "decide"
                /\ UNCHANGED <<should_save, saved_images, read_failed,
                               stop_requested, error_logged>>
    /\ UNCHANGED <<config, exiting, resources, timing, prev_frame, stopHist,
                   cam_outcome, vw_outcome, entered_running, trace, fileHist,
                   msave_time>>

FeedNext ==
    \/ StartCaptureStorage
    \/ FeedRead
    \/ DecideStorage
    \/ SaveStep
    \/ Preview
    \/ Finally
    \/ Exit

SpecFeed == FeedInit /\ [][FeedNext]_vars

\* timestamp of the first frame of the feed
FeedStart == current_time - (frame_count - 1) * p_spacing

\* ------------------------------------------ sessions from the constructor
\* CameraCaptureStorage(resolution=req_resolution, target_fps=req_fps)
\* followed by capture_and_store in manual mode without preview.
SetupInit ==
    /\ script = "storage"
    /\ v4l2_outcome = "applied"
    /\ save_mode = "manual"
    /\ show_preview = FALSE
    /\ req_resolution \in ResolutionNames
    /\ req_fps \in RequestedFps
    /\ resolution = "unset"
    /\ target_fps = 0
    /\ save_interval = 2
    /\ motion_threshold = 16
    /\ motion_cooldown \in Cooldowns
    /\ clock \in 0 .. MaxDt
    /\ pc = "new"
    /\ InitialFields
    /\ p_spacing = 0

\* CameraCaptureStorage.__init__: the resolution settings
Construct ==
    /\ pc = "new"
    /\ resolution' = ConstructResolution(req_resolution)
    /\ target_fps' = ConstructFps(req_resolution, req_fps)
    /\ pc' = "idle"
    /\ UNCHANGED <<script, save_mode, show_preview, save_interval,
                   motion_threshold, motion_cooldown, request, v4l2_outcome,
                   exiting,
                   resources, counters, timing, prev_frame, clock, locals,
                   saveHist, fileHist, motionHist, last_key, stopHist, flags,
                   readHist, trace>>

SetupNext ==
    \/ Construct
    \/ StartCaptureStorage
    \/ ReadFrame
    \/ DecideStorage
    \/ SaveStep
    \/ Preview
    \/ Finally
    \/ Exit

SpecSetup == SetupInit /\ [][SetupNext]_vars

\* ------------------------------------------------ session folders
\* Successive process runs of capture_fhd.py on one storage root.  A
\* folder is named by the minute of the wall clock.

\* datetime.now().strftime("%Y-%m-%d-%H-%M") joined to the storage root
SessionFolderName(m) == m

\* the session of one run in the folders of the earlier runs
capture ==
    <<config, control, resources, counters, timing, prev_frame, clock,
      locals, saveHist, fileHist, motionHist, last_key, stopHist, flags,
      readHist, p_times, p_decisions, p_spacing, window, telemetry>>

\* MotionCapture1080p.__init__ of a new process run calls
\* create_session_folder: the folder is made unless it exists already,
\* and it is the run's session_folder either way
CreateSessionFolder ==
    /\ Len(run_folders) < MaxRuns
    /\ run_folders' = Append(run_folders, SessionFolderName(minute))
    /\ UNCHANGED <<minute, capture, twin, host>>

\* the wall clock reaches the next minute
MinutePasses ==
    /\ minute < MaxMinute
    /\ minute' = minute + 1
    /\ UNCHANGED <<run_folders, capture, twin, host>>

SessionsInit ==
    /\ script = "fhd"
    /\ v4l2_outcome = "applied"
    /\ save_mode = "motion"
    /\ show_preview = FALSE
    /\ resolution = "1080p"
    /\ save_interval = 2
    /\ motion_threshold = 16
    /\ motion_cooldown \in Cooldowns
    /\ clock = 0
    /\ Constructed
    /\ p_spacing = 0
    /\ req_resolution = resolution
    /\ req_fps = DefaultFps
    /\ target_fps = ConstructFps(resolution, DefaultFps)

SessionsNext == CreateSessionFolder \/ MinutePasses

SpecSessions == SessionsInit /\ [][SessionsNext]_vars

\* ------------------------------------- the two motion policies
\* One sequence of frames and timestamps is given to the motion branch of
\* capture_and_store (1080p) and to that of capture_and_record, with the
\* same motion_threshold and motion_cooldown.  tw_alike: so far the two
\* binarization levels counted the same pixels on every pair of frames.
TwinInit ==
    /\ script = "storage"
    /\ v4l2_outcome = "applied"
    /\ save_mode = "motion"
    /\ show_preview = FALSE
    /\ resolution = "1080p"
    /\ save_interval = 2
    /\ motion_threshold \in TwinThresholds
    /\ motion_cooldown \in Cooldowns
    /\ clock = 0
    /\ Constructed
    /\ p_spacing = 0
    /\ req_resolution = resolution
    /\ req_fps = DefaultFps
    /\ target_fps = ConstructFps(resolution, DefaultFps)

\* one frame through both loops: the decision, last_motion_save, and the
\* new baseline (`prev_frame = frame.copy()` at the end of the iteration
\* of capture_and_store, `self.prev_frame = frame.copy()` in detect_motion)
TwinFrame ==
    /\ tw_n < MaxTwinFrames
    /\ \E f \in Images, dt \in 0 .. MaxDt :
        LET now == tw_now + dt
            s == StorageTrigger(f, s_prev, now, s_last, motion_threshold,
                                motion_cooldown)
            d == FhdTrigger(f, f_prev, now, f_last, motion_threshold,
                            motion_cooldown)
        IN  /\ tw_now' = now
            /\ s_save' = s
            /\ s_last' = IF s THEN now ELSE s_last
            /\ s_prev' = f
            /\ f_save' = d
            /\ f_last' = IF d THEN now ELSE f_last
            /\ f_prev' = f
            /\ tw_alike' =
                   (/\ tw_alike
                    /\ s_prev # NoImage =>
                           ChangedPixels(f, s_prev, StorageLevel) =
                               ChangedPixels(f, s_prev, FhdLevel))
    /\ tw_n' = tw_n + 1
    /\ UNCHANGED <<capture, sessions, host>>

TwinNext == TwinFrame

SpecTwin == TwinInit /\ [][TwinNext]_vars

\* ------------------------------------------------- device tuning
\* Sessions of capture_fhd.py on a host where the tuning of the device
\* goes in any of the ways of TuningOutcomes.
TuningInit ==
    /\ script = "fhd"
    /\ v4l2_outcome \in TuningOutcomes
    /\ save_mode = "motion"
    /\ show_preview = FALSE
    /\ resolution = "1080p"
    /\ save_interval = 2
    /\ motion_threshold = 16
    /\ motion_cooldown \in Cooldowns
    /\ clock \in 0 .. MaxDt
    /\ Constructed
    /\ p_spacing = 0
    /\ req_resolution = resolution
    /\ req_fps = DefaultFps
    /\ target_fps = ConstructFps(resolution, DefaultFps)

TuningNext ==
    \/ StartCaptureFhd
    \/ ReadFrame
    \/ DecideFhd
    \/ SaveStep
    \/ Preview
    \/ Finally
    \/ Exit

SpecTuning == TuningInit /\ [][TuningNext]_vars

\* ------------------------------------------- the 4K motion comparison
\* A 4K motion session of camera_capture_storage.py that has just read
\* its second frame: the first one is the baseline, the frame read
\* differs from it in 0 .. MaxPixels4k pixels, and the threshold is any
\* integer the prompt of main() accepts.
Motion4kInit ==
    /\ script = "storage"
    /\ v4l2_outcome = "applied"
    /\ save_mode = "motion"
    /\ show_preview = FALSE
    /\ resolution = "4k"
    /\ req_resolution = "4k"
    /\ req_fps = DefaultFps
    /\ target_fps = ConstructFps("4k", DefaultFps)
    /\ save_interval = 2
    /\ motion_threshold \in -MaxThreshold4k .. MaxThreshold4k
    /\ motion_cooldown \in Cooldowns
    /\ pc = "decide"
    /\ exiting = FALSE
    /\ cap = CapAfterInit("ok")
    /\ video_writer = "none"
    /\ running = TRUE
    /\ log_thread = TRUE
    /\ frame_count = 2
    /\ saved_images = 0
    /\ last_save_time = 0
    /\ last_motion_save = 0
    /\ prev_frame = 0
    /\ frame \in 0 .. MaxPixels4k
    /\ clock \in 1 .. MaxClock
    /\ current_time = clock
    /\ should_save = FALSE
    /\ read_attempts = 2
    /\ read_failed = FALSE
    /\ video_frames = 0
    /\ video_write_failed = FALSE
    /\ frame_writes = 0
    /\ save_failed = FALSE
    /\ any_save_failed = FALSE
    /\ last_key = "none"
    /\ last_file = NoFile
    /\ ok_writes = 0
    /\ consulted = FALSE
    /\ msave_time = NoFile
    /\ stop_calls = 0
    /\ cap_release_calls = 0
    /\ vw_release_calls = 0
    /\ summaries = 0
    /\ cam_outcome = "ok"
    /\ vw_outcome = "pending"
    /\ stop_requested = FALSE
    /\ entered_running = TRUE
    /\ error_logged = FALSE
    /\ p_times = <<>>
    /\ p_decisions = <<>>
    /\ p_spacing = 0
    /\ frame_times = <<>>
    /\ start_time = NoStart
    /\ t_pc = "test"
    /\ late_lines = 0
    /\ t_len = 0
    /\ t_last = 0
    /\ t_first = 0
    /\ t_num = 0
    /\ avg_state = "none"
    /\ w_seen = {}
    /\ tick_appends = 0
    /\ OutsideInit

Motion4kNext == DecideStorage \/ SaveStep \/ Preview

SpecMotion4k == Motion4kInit /\ [][Motion4kNext]_vars

\* ------------------------------------ timestamp window and telemetry
\* The capture thread appends one timestamp per frame to frame_times while
\* the telemetry thread (log_stats) computes the rates; the two threads
\* interleave between any two reads.  The frames of a session arrive
\* p_spacing apart (0: the clock does not move between two readings).
TelemetryInit ==
    /\ script \in Scripts
    /\ v4l2_outcome = "applied"
    /\ save_mode = "manual"
    /\ show_preview = FALSE
    /\ resolution = "1080p"
    /\ save_interval = 2
    /\ motion_threshold = 16
    /\ motion_cooldown \in Cooldowns
    /\ clock \in 0 .. MaxTelStart
    /\ Constructed
    /\ p_spacing \in 0 .. MaxSpacing
    /\ req_resolution = resolution
    /\ req_fps = DefaultFps
    /\ target_fps = ConstructFps(resolution, DefaultFps)

\* capture_and_store / capture_and_record up to the try block, when the
\* initialization succeeds: running, start_time and the telemetry thread
StartSession ==
    /\ pc = "idle"
    /\ cam_outcome' = "ok"
    /\ cap' = CapAfterInit("ok")
    /\ vw_outcome' = IF script = "fhd" THEN "ok" ELSE vw_outcome
    /\ video_writer' =
           IF script = "fhd" THEN WriterAfterInit("ok") ELSE video_writer
    /\ running' = TRUE
    /\ start_time' = clock
    /\ log_thread' = TRUE
    /\ entered_running' = TRUE
    /\ pc' = "loop"
    /\ UNCHANGED <<config, exiting, counters, timing, prev_frame, clock,
                   locals, saveHist, fileHist, motionHist, last_key, stopHist,
                   readHist, stop_requested, error_logged, p_times,
                   p_decisions, p_spacing, outside, frame_times, telemetry>>

\* `current_time = time.time()`, `self.frame_times.append(current_time)`,
\* `self.frame_count += 1`
AppendTimestamp ==
    /\ pc = "loop"
    /\ running
    /\ frame_count < MaxTelFrames
    /\ t_pc \in {"last", "first", "num"} => tick_appends < MaxTickAppends
    /\ LET now == clock + p_spacing
           w == DequeAppend(frame_times, now, WindowCap)
       IN  /\ clock' = now
           /\ current_time' = now
           /\ frame_times' = w
           /\ IF t_pc \in {"last", "first", "num"}
              THEN /\ w_seen' = w_seen \cup {w}
                   /\ tick_appends' = tick_appends + 1
              ELSE UNCHANGED <<w_seen, tick_appends>>
    /\ frame_count' = frame_count + 1
    /\ UNCHANGED <<config, control, resources, saved_images, timing,
                   prev_frame, frame, should_save, saveHist, fileHist,
                   motionHist, last_key, stopHist, flags, readHist, p_times,
                   p_decisions, p_spacing, outside, start_time, t_pc, t_len, t_last,
                   t_first, t_num, avg_state, late_lines>>

\* what no telemetry step touches
TelemetryFrame ==
    UNCHANGED <<config, control, resources, counters, timing, prev_frame,
                clock, locals, saveHist, fileHist, motionHist, last_key,
                stopHist, flags, readHist, p_times, p_decisions, p_spacing, outside,
                start_time>>

\* a variant of the loop test that never looks at running
LoopTestForever ==
    /\ t_pc = "test"
    /\ log_thread
    /\ t_pc' = "sleep"
    /\ UNCHANGED <<frame_times, t_len, t_last, t_first, t_num, avg_state,
                   w_seen, tick_appends, late_lines>>
    /\ TelemetryFrame

\* log_stats, once the thread has been started: `while self.running:`
\* and, when it holds, the call of time.sleep
LoopTest ==
    /\ t_pc = "test"
    /\ log_thread
    /\ t_pc' = IF running THEN "sleep" ELSE "done"
    /\ UNCHANGED <<frame_times, t_len, t_last, t_first, t_num, avg_state,
                   w_seen, tick_appends, late_lines>>
    /\ TelemetryFrame

\* log_stats: the sleep is over, `if self.frame_count > 0` (running is
\* not looked at again), and calculate_fps:
\* `if len(self.frame_times) < 2: return 0.0`
FpsLen ==
    /\ t_pc = "sleep"
    /\ IF frame_count > 0
       THEN /\ t_len' = Len(frame_times)
            /\ t_pc' = IF Len(frame_times) < 2 THEN "avg" ELSE "last"
            /\ w_seen' = {frame_times}
            /\ tick_appends' = 0
            /\ t_num' = 0
            /\ t_last' = 0
            /\ t_first' = 0
            /\ avg_state' = "none"
       ELSE /\ t_pc' = "test"
            /\ UNCHANGED <<t_len, w_seen, tick_appends, t_num, t_last,
                           t_first, avg_state>>
    /\ UNCHANGED <<frame_times, late_lines>>
    /\ TelemetryFrame

\* a variant that consumes the newest entry it reads
FpsLastPop ==
    /\ t_pc = "last"
    /\ t_last' = frame_times[Len(frame_times)]
    /\ frame_times' = SubSeq(frame_times, 1, Len(frame_times) - 1)
    /\ t_pc' = "first"
    /\ UNCHANGED <<t_len, t_first, t_num, avg_state, w_seen, tick_appends,
                   late_lines>>
    /\ TelemetryFrame

\* calculate_fps: the read of `self.frame_times[-1]`
FpsLast ==
    /\ t_pc = "last"
    /\ t_last' = frame_times[Len(frame_times)]
    /\ t_pc' = "first"
    /\ UNCHANGED <<frame_times, t_len, t_first, t_num, avg_state, w_seen,
                   tick_appends, late_lines>>
    /\ TelemetryFrame

\* calculate_fps: the read of `self.frame_times[0]`
FpsFirst ==
    /\ t_pc = "first"
    /\ t_first' = frame_times[1]
    /\ t_pc' = "num"
    /\ UNCHANGED <<frame_times, t_len, t_last, t_num, avg_state, w_seen,
                   tick_appends, late_lines>>
    /\ TelemetryFrame

\* calculate_fps: `(len(self.frame_times) - 1) / time_span if time_span > 0
\* else 0.0`; t_num is the length read for the numerator (0: the rate 0.0
\* was returned without a division)
FpsNum ==
    /\ t_pc = "num"
    /\ t_num' = IF t_last - t_first > 0 THEN Len(frame_times) ELSE 0
    /\ t_pc' = "avg"
    /\ UNCHANGED <<frame_times, t_len, t_last, t_first, avg_state, w_seen,
                   tick_appends, late_lines>>
    /\ TelemetryFrame

\* log_stats: the average rate and the log line, then back to the loop
\* test; an exception ends the thread.  late_lines counts the lines
\* logged after running was set to False.  The values read by
\* calculate_fps are gone once the line is out.
AvgFps ==
    /\ t_pc = "avg"
    /\ avg_state' = AverageFps(script, frame_count, clock, start_time)
    /\ IF AverageFps(script, frame_count, clock, start_time) = "ok"
       THEN /\ t_pc' = "test"
            /\ late_lines' = IF running THEN late_lines ELSE late_lines + 1
       ELSE /\ t_pc' = "dead"
            /\ UNCHANGED late_lines
    /\ t_len' = 0
    /\ t_last' = 0
    /\ t_first' = 0
    /\ t_num' = 0
    /\ w_seen' = {}
    /\ tick_appends' = 0
    /\ UNCHANGED frame_times
    /\ TelemetryFrame

\* the loop is left (quit key, failed read) and the finally clause calls
\* stop_capture(); avg_state records how its average rate came out
StopWithSummary ==
    /\ pc = "loop"
    /\ running
    /\ stop_capture
    /\ avg_state' =
           IF frame_count > 0
           THEN AverageFps(script, frame_count, clock, start_time)
           ELSE avg_state
    /\ pc' = "returned"
    /\ UNCHANGED <<config, exiting, counters, timing, prev_frame, clock,
                   locals, saveHist, fileHist, motionHist, last_key, flags,
                   readHist, p_times, p_decisions, p_spacing, outside, window, t_pc,
                   t_len, t_last, t_first, t_num, w_seen, tick_appends,
                   late_lines>>

CaptureThread == StartSession \/ AppendTimestamp \/ StopWithSummary

TelemetryThread ==
    LoopTest \/ FpsLen \/ FpsLast \/ FpsFirst \/ FpsNum \/ AvgFps

TelemetryNext == CaptureThread \/ TelemetryThread

SpecTelemetry == TelemetryInit /\ [][TelemetryNext]_vars

\* the acquisition of a frame in a session of at most MaxWindDownFrames
AppendEarly ==
    /\ frame_count < MaxWindDownFrames
    /\ AppendTimestamp

WindDownNext ==
    \/ StartSession
    \/ AppendEarly
    \/ StopWithSummary
    \/ TelemetryThread

\* short sessions in which the telemetry thread is scheduled again and
\* again: time.sleep returns and the interpreter switches threads
SpecWindDown ==
    TelemetryInit /\ [][WindDownNext]_vars /\ WF_vars(TelemetryThread)

\* ------------------------------------------- the host controller
\* HostController runs in the GUI thread: its slots (button clicks, the
\* queued signals of the SerialMonitor and ScriptRunner threads) run one
\* after the other.  h_pc = "wait": the GUI thread is inside stop_script,
\* between ScriptRunner.stop_script() and on_script_finished(-1), and
\* the other threads go on.

\* a signal emitted in another thread, waiting in the GUI thread's queue
CommandEvent(line) == <<"command", line, NoRunner>>
FinishedEvent(i) == <<"finished", "", i>>

\* `line.lower()` in SerialMonitor.run, `command.strip().lower()` in
\* handle_serial_command
CommandLower(line) ==
    CASE line = "START" -> "start"
      [] line = "STOP" -> "stop"
      [] OTHER -> line

\* the branches of handle_serial_command that only write a message
IgnoredCommand(command) ==
    \/ command = "start" /\ (selected_script = NoScript
                             \/ script_runner # NoRunner)
    \/ command = "stop" /\ script_runner = NoRunner
    \/ command \notin {"start", "stop"}

\* the script processes alive
Processes == {i \in 1 .. MaxScriptRuns : r_pc[i] = "process"}

\* on_script_finished, reporting the end of run i (no run when i is
\* NoRunner): the buttons are reset and the handle is cleared
OnScriptFinished(i) ==
    /\ reports' = IF i \in 1 .. MaxScriptRuns
                  THEN [reports EXCEPT ![i] = @ + 1]
                  ELSE reports
    /\ run_btn' = TRUE
    /\ stop_btn' = FALSE
    /\ script_runner' = NoRunner

\* run_script: a new ScriptRunner thread is created and started unless
\* no script is selected or its file is gone
RunScript(exists) ==
    IF selected_script # NoScript /\ exists
    THEN /\ runs < MaxScriptRuns
         /\ runs' = runs + 1
         /\ script_runner' = runs + 1
         /\ r_pc' = [r_pc EXCEPT ![runs + 1] = "thread"]
         /\ run_btn' = FALSE
         /\ stop_btn' = TRUE
         /\ UNCHANGED <<reports, h_pc>>
    ELSE UNCHANGED <<runs, script_runner, r_pc, run_btn, stop_btn, reports,
                     h_pc>>

\* stop_script up to its wait: ScriptRunner.stop_script terminates the
\* process if there is one (and waits for its end); then the GUI thread
\* waits for the thread
StopScript ==
    IF script_runner # NoRunner
    THEN /\ r_pc' = IF r_pc[script_runner] = "process"
                    THEN [r_pc EXCEPT ![script_runner] = "exited"]
                    ELSE r_pc
         /\ h_pc' = "wait"
         /\ UNCHANGED <<runs, script_runner, run_btn, stop_btn, reports>>
    ELSE /\ OnScriptFinished(NoRunner)
         /\ UNCHANGED <<runs, r_pc, h_pc>>

\* browse_script with a file chosen: the Run button is enabled
BrowseScript ==
    /\ h_pc = "idle"
    /\ selected_script' = "script.py"
    /\ run_btn' = TRUE
    /\ UNCHANGED <<script_runner, runs, r_pc, reports, stop_btn, queue,
                   h_pc, ignored, monitor, capture, sessions, twin>>

\* a click on the enabled Run button
RunClick ==
    /\ h_pc = "idle"
    /\ run_btn
    /\ \E exists \in BOOLEAN : RunScript(exists)
    /\ UNCHANGED <<selected_script, queue, ignored, monitor, capture,
                   sessions, twin>>

\* a click on the enabled Stop button
StopClick ==
    /\ h_pc = "idle"
    /\ stop_btn
    /\ StopScript
    /\ UNCHANGED <<selected_script, queue, ignored, monitor, capture,
                   sessions, twin>>

\* the wait of stop_script ends, because the thread has finished or
\* because three seconds passed with the script process still running,
\* and on_script_finished(-1) is called
StopScriptEnd ==
    /\ h_pc = "wait"
    /\ r_pc[script_runner] \in {"done", "process"}
    /\ OnScriptFinished(script_runner)
    /\ h_pc' = "idle"
    /\ UNCHANGED <<selected_script, runs, r_pc, queue, ignored, monitor,
                   capture, sessions, twin>>

\* SerialMonitor.run reads a line: an empty line is dropped, any other
\* is emitted in lower case
SerialLine ==
    /\ Len(queue) < MaxQueue
    /\ \E line \in SerialLines :
           queue' = IF line # ""
                    THEN Append(queue, CommandEvent(CommandLower(line)))
                    ELSE queue
    /\ UNCHANGED <<selected_script, script_runner, runs, r_pc, reports,
                   run_btn, stop_btn, h_pc, ignored, monitor, capture,
                   sessions, twin>>

\* a variant that starts the script whenever one is selected
HandleSerialCommandAlways ==
    /\ h_pc = "idle"
    /\ queue # <<>>
    /\ Head(queue)[1] = "command"
    /\ queue' = Tail(queue)
    /\ LET command == CommandLower(Head(queue)[2])
       IN  /\ ignored' = IF IgnoredCommand(command) THEN command ELSE ""
           /\ CASE command = "start" /\ selected_script # NoScript ->
                       \E exists \in BOOLEAN : RunScript(exists)
                [] command = "stop" /\ script_runner # NoRunner ->
                       StopScript
                [] OTHER ->
                       UNCHANGED <<runs, script_runner, r_pc, run_btn,
                                   stop_btn, reports, h_pc>>
    /\ UNCHANGED <<selected_script, monitor, capture, sessions, twin>>

\* handle_serial_command on the next queued command_received signal
HandleSerialCommand ==
    /\ h_pc = "idle"
    /\ queue # <<>>
    /\ Head(queue)[1] = "command"
    /\ queue' = Tail(queue)
    /\ LET command == CommandLower(Head(queue)[2])
       IN  /\ ignored' = IF IgnoredCommand(command) THEN command ELSE ""
           /\ CASE command = "start" /\ selected_script # NoScript
                       /\ script_runner = NoRunner ->
                       \E exists \in BOOLEAN : RunScript(exists)
                [] command = "stop" /\ script_runner # NoRunner ->
                       StopScript
                [] OTHER ->
                       UNCHANGED <<runs, script_runner, r_pc, run_btn,
                                   stop_btn, reports, h_pc>>
    /\ UNCHANGED <<selected_script, monitor, capture, sessions, twin>>

\* the queued finished_signal of run i reaches on_script_finished.  When
\* the controller no longer holds that ScriptRunner (script_runner was
\* cleared or replaced) the object may have been finalised before the
\* event is dispatched, and then the call is dropped
DeliverFinished ==
    /\ h_pc = "idle"
    /\ queue # <<>>
    /\ Head(queue)[1] = "finished"
    /\ queue' = Tail(queue)
    /\ LET i == Head(queue)[3]
       IN  \E delivered \in IF script_runner = i THEN {TRUE} ELSE BOOLEAN :
               IF delivered
               THEN OnScriptFinished(i)
               ELSE UNCHANGED <<script_runner, run_btn, stop_btn, reports>>
    /\ UNCHANGED <<selected_script, runs, r_pc, h_pc, ignored, monitor,
                   capture, sessions, twin>>

\* ScriptRunner.run: subprocess.Popen; when it raises, finished_signal
\* is emitted with -1
Popen ==
    /\ \E i \in 1 .. MaxScriptRuns, ok \in BOOLEAN :
        /\ r_pc[i] = "thread"
        /\ r_pc' = [r_pc EXCEPT ![i] = IF ok THEN "process" ELSE "done"]
        /\ queue' = IF ok THEN queue ELSE Append(queue, FinishedEvent(i))
    /\ UNCHANGED <<selected_script, script_runner, runs, reports, run_btn,
                   stop_btn, h_pc, ignored, monitor, capture, sessions,
                   twin>>

\* the script process ends by itself
ScriptExits ==
    /\ \E i \in 1 .. MaxScriptRuns :
        /\ r_pc[i] = "process"
        /\ r_pc' = [r_pc EXCEPT ![i] = "exited"]
    /\ UNCHANGED <<selected_script, script_runner, runs, reports, run_btn,
                   stop_btn, queue, h_pc, ignored, monitor, capture,
                   sessions, twin>>

\* ScriptRunner.run after the end of the output: process.wait() and
\* finished_signal.emit(returncode), after which the thread ends
EmitFinished ==
    /\ \E i \in 1 .. MaxScriptRuns :
        /\ r_pc[i] = "exited"
        /\ r_pc' = [r_pc EXCEPT ![i] = "done"]
        /\ queue' = Append(queue, FinishedEvent(i))
    /\ UNCHANGED <<selected_script, script_runner, runs, reports, run_btn,
                   stop_btn, h_pc, ignored, monitor, capture, sessions,
                   twin>>

\* the controller as constructed, with no capture object in this process
HostInit == SessionsInit

HostNext ==
    \/ BrowseScript
    \/ RunClick
    \/ StopClick
    \/ StopScriptEnd
    \/ SerialLine
    \/ HandleSerialCommand
    \/ DeliverFinished
    \/ Popen
    \/ ScriptExits
    \/ EmitFinished

SpecHost == HostInit /\ [][HostNext]_vars

\* ------------------------------------------- the serial monitor
\* on_device_selected runs in the GUI thread; sel_pc = "wait": it is
\* inside the wait(3000) of stop_monitoring, with sel_arg the device
\* given.  m_pc is the position of the SerialMonitor thread.

\* stop_monitoring up to its wait: the flag is cleared and an open port
\* is closed
StopMonitoring ==
    /\ m_running' = FALSE
    /\ serial_port' = NoDevice

\* set_port after stop_monitoring, and the start of the thread unless it
\* is running
SetPortAndStart(device) ==
    /\ port_name' = device
    /\ m_pc' = IF m_pc = "off" THEN "started" ELSE m_pc

\* on_device_selected(device), up to the wait when the thread is running
OnDeviceSelected ==
    /\ sel_pc = "idle"
    /\ selections < MaxSelections
    /\ selections' = selections + 1
    /\ \E device \in Devices \cup {NoDevice} :
        /\ StopMonitoring
        /\ current_device' = IF device # NoDevice \/ m_pc = "off"
                              THEN device
                              ELSE current_device
        /\ sel_arg' = device
        /\ IF m_pc # "off"
           THEN /\ sel_pc' = "wait"
                /\ UNCHANGED <<port_name, m_pc>>
           ELSE /\ sel_pc' = "idle"
                /\ IF device # NoDevice
                   THEN SetPortAndStart(device)
                   ELSE UNCHANGED <<port_name, m_pc>>
    /\ UNCHANGED <<m_read, runner, capture, sessions, twin>>

\* the wait of stop_monitoring ends: the thread has finished, or three
\* seconds passed with the thread in its loop, the flag set and the port
\* open
WaitEnds ==
    /\ sel_pc = "wait"
    /\ m_pc = "off" \/ (m_pc = "loop" /\ m_running /\ serial_port # NoDevice)
    /\ sel_pc' = "idle"
    /\ IF sel_arg # NoDevice
       THEN SetPortAndStart(sel_arg)
       ELSE UNCHANGED <<port_name, m_pc>>
    /\ current_device' = sel_arg
    /\ UNCHANGED <<sel_arg, m_running, serial_port, m_read, selections,
                   runner, capture, sessions, twin>>

\* SerialMonitor.run up to the try block: the thread returns at once when
\* port_name is empty, else it sets the flag
MonitorBegins ==
    /\ m_pc = "started"
    /\ m_pc' = IF port_name = NoDevice THEN "off" ELSE "open"
    /\ m_running' = (port_name # NoDevice)
    /\ UNCHANGED <<port_name, current_device, serial_port, m_read, sel_pc,
                   sel_arg, selections, runner, capture, sessions, twin>>

\* SerialMonitor.run: the thread opens the port named by port_name (the
\* open may fail) and enters its loop
MonitorOpens ==
    /\ m_pc = "open"
    /\ \E ok \in BOOLEAN :
        /\ serial_port' = IF ok THEN port_name ELSE serial_port
        /\ m_pc' = IF ok THEN "loop" ELSE "off"
    /\ UNCHANGED <<port_name, current_device, m_running, m_read, sel_pc,
                   sel_arg, selections, runner, capture, sessions, twin>>

\* one round of the loop: it is left when the flag is clear or when the
\* port was closed under it (the read raises), and the finally clause
\* closes the port; otherwise the port is read
MonitorLoop ==
    /\ m_pc = "loop"
    /\ IF m_running /\ serial_port # NoDevice
       THEN /\ m_read' = serial_port
            /\ UNCHANGED <<m_pc, serial_port>>
       ELSE /\ m_pc' = "off"
            /\ serial_port' = NoDevice
            /\ UNCHANGED m_read
    /\ UNCHANGED <<port_name, current_device, m_running, sel_pc, sel_arg,
                   selections, runner, capture, sessions, twin>>

MonitorNext ==
    \/ OnDeviceSelected
    \/ WaitEnds
    \/ MonitorBegins
    \/ MonitorOpens
    \/ MonitorLoop

SpecMonitor == HostInit /\ [][MonitorNext]_vars

\* =============================================================== claims

\* C1: in every reachable state of a session the number of saved images
\* (saved_images) is at most the number of acquired frames (frame_count).
C1_SavedAtMostSeen == saved_images <= frame_count

\* C2: save_frame is invoked at most once for an acquired frame, whatever
\* the mode and whatever key is pressed during the iteration.
C2_OneSavePerFrame == frame_writes <= 1

\* C3: after stop_capture has been invoked twice (signal handler, then the
\* finally clause) the capture device and the video writer have each been
\* released exactly once.
C3_ReleasedOnce ==
    stop_calls = 2 =>
        /\ cap # "none" => cap_release_calls = 1
        /\ video_writer # "none" => vw_release_calls = 1

\* C4: the final session summary is emitted at most once per session.
C4_SummaryOnce == summaries <= 1

\* an initialization failure as the scripts see it: the camera cannot be
\* constructed or opened, 4K is not achieved by CameraCaptureStorage, or the
\* video writer cannot be constructed or opened
InitFailure ==
    \/ cam_outcome \in {"raise", "unopened"}
    \/ cam_outcome = "mismatch" /\ script = "storage" /\ resolution = "4k"
    \/ vw_outcome \in {"raise", "unopened"}

\* C5: when camera or video-writer initialization fails the session is
\* Stopped and has never been Running: running was never set, no frame was
\* read and the telemetry thread was never started.
C5_FailsClosed ==
    InitFailure =>
        /\ pc \in Stopped
        /\ ~entered_running
        /\ ~running
        /\ read_attempts = 0
        /\ frame_count = 0
        /\ ~log_thread

C5_Witness ==
    /\ vw_outcome = "unopened"
    /\ cap = "open"
    /\ pc = "returned"

\* C6: once a stop condition has occurred while Running and the
\* session is Stopped, the device is released, the recorder closed and the
\* final summary emitted.
C6_StopEmitsSummary ==
    (stop_requested /\ pc \in Stopped) =>
        /\ cap = "released"
        /\ script = "fhd" => video_writer = "released"
        /\ summaries >= 1

\* C7: after the first failed read no further read is attempted, no frame
\* is counted, saved or recorded, the loop has been left, and a Stopped
\* session has run stop_capture.
C7_ReadFailureFatal ==
    /\ [][read_failed =>
            /\ read_attempts' = read_attempts
            /\ frame_count' = frame_count
            /\ frame_writes' = frame_writes
            /\ saved_images' = saved_images
            /\ video_frames' = video_frames]_vars
    /\ [](read_failed => pc \in {"finally"} \cup Stopped)
    /\ [](read_failed /\ pc \in Stopped => stop_calls >= 1 /\ ~running)

C7_Witness ==
    /\ read_failed
    /\ frame_count >= 1
    /\ pc \in Stopped
    /\ stop_calls >= 1

\* C8: a step in which save_frame fails leaves the loop running (the next
\* step is the rest of the iteration, not shutdown), and once save_frame
\* has failed for a frame that frame is not written again.
C8_FailedSaveNotRetried ==
    [][/\ (frame_writes' = frame_writes + 1 /\ saved_images' = saved_images)
            => (pc' \in {"preview", "loop"} /\ running')
       /\ (save_failed /\ frame_count' = frame_count)
            => frame_writes' = frame_writes]_vars

IntervalSession == script = "storage" /\ save_mode = "interval"

ExampleTimes == <<0, 4, 11, 13, 22>>

\* C10 as stated: with interval 1.0 s the timestamps 0.0, 0.4, 1.1, 1.3,
\* 2.2 give the decisions true, false, true, false, true.
C10_ExampleAsStated ==
    (save_interval = 10 /\ p_times = ExampleTimes) =>
        p_decisions = <<TRUE, FALSE, TRUE, FALSE, TRUE>>

\* C10 as amended: with interval 1.0 s the timestamps 0.0, 0.4, 1.1, 1.3,
\* 2.2 give the decisions false, false, true, false, true (last_save_time
\* starts at 0, so the frame at 0.0 is not due).
C10_ExampleDecisions ==
    (save_interval = 10 /\ p_times = ExampleTimes) =>
        p_decisions = <<FALSE, FALSE, TRUE, FALSE, TRUE>>

C10_Witness ==
    /\ save_interval = 10
    /\ p_times = ExampleTimes
    /\ p_decisions = <<FALSE, FALSE, TRUE, FALSE, TRUE>>
    /\ last_save_time = 22

\* ten frames 100 ms apart, interval 1.0 s, seen at the end of the tenth
\* iteration of the loop
TenFrameFeed ==
    /\ p_spacing = 1
    /\ save_interval = 10
    /\ frame_count = 10
    /\ pc = "loop"

\* exactly one save_frame call has been made, and it was made for a frame
\* stamped at or after 1.0 s (last_save_time is the timestamp of the frame
\* the interval branch last accepted)
ExactlyOneSave ==
    /\ saved_images = (IF any_save_failed THEN 0 ELSE 1)
    /\ last_save_time >= 10
    /\ last_save_time <= current_time

\* C11 as stated: for a feed of 10 frames 100 ms apart, wherever its first
\* timestamp lies, exactly one save is made, at or after t = 1.0 s.
C11_FeedOneSaveAnyStart == TenFrameFeed => ExactlyOneSave

\* C11: for a feed of 10 frames 100 ms apart whose first frame is stamped
\* 0.1 s or later (so that the tenth is stamped 1.0 s or later), exactly one
\* save is made, for a frame stamped at or after 1.0 s; a feed whose first
\* frame is stamped 0.0 s ends at 0.9 s without any save; and when the feed
\* has ended frame_count is the number of frames delivered.
C11_FeedOneSave ==
    /\ (TenFrameFeed /\ FeedStart >= 1) => ExactlyOneSave
    /\ (TenFrameFeed /\ FeedStart = 0) =>
           (saved_images = 0 /\ ~any_save_failed /\ last_save_time = 0)
    /\ read_failed => frame_count = MaxFeed

C11_Witness ==
    /\ p_spacing = 1
    /\ save_interval = 10
    /\ frame_count = 10
    /\ pc = "returned"
    /\ read_failed
    /\ FeedStart = 1
    /\ saved_images = 1
    /\ last_save_time = 10

\* the motion comparison of the frame being decided comes out positive
MotionDetected ==
    IF script = "fhd"
    THEN DetectMotion(frame, prev_frame, motion_threshold)
    ELSE /\ prev_frame # NoFrame
         /\ StorageMotion(resolution, frame, prev_frame, motion_threshold)

\* C12: in motion mode a frame is accepted for saving only when no motion
\* save was made before or the last one lies at least motion_cooldown back,
\* and a frame with detected motion that comes at least motion_cooldown
\* after the last motion save is accepted.
C12_CooldownSpacing ==
    [][(pc = "decide" /\ pc' = "save" /\ save_mode = "motion") =>
         /\ should_save' =>
                \/ msave_time = NoFile
                \/ current_time - msave_time >= motion_cooldown
         /\ (/\ MotionDetected
             /\ msave_time # NoFile
             /\ current_time - msave_time >= motion_cooldown) => should_save'
      ]_vars

\* a second motion save, made motion_cooldown or more after the first
C12_Witness ==
    /\ save_mode = "motion"
    /\ ~show_preview
    /\ pc = "preview"
    /\ frame_writes = 1
    /\ saved_images = 2
    /\ msave_time = current_time
    /\ last_motion_save = current_time

\* C13: in motion mode the pixel comparison is made for a frame only when
\* the cooldown since the last motion save is over; a frame that arrives
\* less than motion_cooldown after a motion save is not compared at all.
C13_DetectionSkippedInCooldown ==
    [][(/\ pc = "decide" /\ pc' = "save"
        /\ save_mode = "motion"
        /\ msave_time # NoFile
        /\ consulted') =>
          CooldownOver(current_time, last_motion_save, motion_cooldown)
      ]_vars

C15_IdenticalFramesNoMotion ==
    [][(/\ pc = "decide" /\ pc' = "save"
        /\ save_mode = "motion"
        /\ frame = prev_frame) => ~should_save'
      ]_vars

\* C16: when an iteration of the loop ends, the stored baseline prev_frame
\* is the frame of that iteration, whatever the mode, the verdict and the
\* cooldown; so the next frame is decided against the frame acquired
\* immediately before it.
C16_BaselineIsLastFrame ==
    [][/\ (pc = "preview" /\ pc' = "loop") => prev_frame' = frame'
       /\ (pc = "loop" /\ pc' = "decide" /\ frame_count >= 1) =>
              prev_frame' = frame
      ]_vars

\* an iteration ends for a frame that came during the cooldown of an
\* earlier motion save and was not saved itself
C16_Witness ==
    /\ save_mode = "motion"
    /\ pc = "loop"
    /\ frame_count >= 2
    /\ frame_writes = 0
    /\ msave_time # NoFile
    /\ current_time - msave_time < motion_cooldown
    /\ prev_frame = frame

\* C17: in all-frames mode, as long as no save has failed, the number of
\* saved images equals the number of acquired frames whenever an iteration
\* of the loop has ended.
C17_AllFramesSaved ==
    (save_mode = "all" /\ pc = "loop" /\ ~any_save_failed) =>
        saved_images = frame_count

\* C18: in manual mode the save decision is never positive and the timing
\* state (last_save_time, last_motion_save) keeps its initial value for the
\* whole session; a frame is written exactly when the operator pressed the
\* save key during its iteration.
C18_ManualOnlyOnKey ==
    save_mode = "manual" =>
        /\ ~should_save
        /\ last_save_time = 0
        /\ last_motion_save = 0
        /\ pc \in {"save", "preview"} => frame_writes = 0
        /\ (pc = "loop" /\ frame_count >= 1) =>
               frame_writes = (IF last_key = "s" THEN 1 ELSE 0)

\* one iteration ended with a key save, a later one without
C18_Witness ==
    /\ save_mode = "manual"
    /\ pc = "loop"
    /\ frame_count = 2
    /\ saved_images = 1
    /\ last_key = "none"
    /\ frame_writes = 0
    /\ current_time >= save_interval

C20_NoSilentOverwrite ==
    [][(pc = "save" /\ saved_images' > saved_images) =>
          get_image_filename(clock) # last_file
      ]_vars

\* the combinations the camera supports: the two known resolutions, 4K at
\* no more than 30 fps
SupportedPair(name, fps) ==
    /\ name \in Resolutions
    /\ name = "4k" => fps <= 30

\* C21: the device is opened and configured only when the requested
\* resolution/frame-rate pair is a supported combination.
C21_UnsupportedPairRejected ==
    cam_outcome \in {"ok", "mismatch"} =>
        SupportedPair(Lower(req_resolution), req_fps)

\* C22: a session is running only if the resolution read back from the
\* device after configuration equals the requested one.
C22_RunningOnlyAsRequested == running => cam_outcome # "mismatch"

\* C23: a step in which a save or a video write fails stays inside the
\* loop, and the loop is only ever left after a read failure, a stop
\* request (quit key) or a signal.
C23_IoErrorsAbsorbed ==
    [][/\ ((frame_writes' = frame_writes + 1 /\ saved_images' = saved_images)
           \/ (~video_write_failed /\ video_write_failed')) =>
              pc' \in InTry
       /\ (pc \in InTry /\ pc' \notin InTry) =>
              (read_failed' \/ stop_requested' \/ exiting')
      ]_vars

\* a third frame is acquired after a failed video write and a failed save
C23_Witness ==
    /\ script = "fhd"
    /\ pc = "decide"
    /\ frame_count = 3
    /\ video_write_failed
    /\ any_save_failed
    /\ saved_images = 0
    /\ running

\* C24: once a session has met a fatal condition (camera or video-writer
\* initialization failed, 4K not achieved, a frame could not be read) an
\* error line has been logged; in particular it has been logged when the
\* run has returned or exited.
C24_FatalRunsLogged == (InitFailure \/ read_failed) => error_logged

\* a run that ended because the camera could not be opened
C24_Witness ==
    /\ pc = "exited"
    /\ cam_outcome = "unopened"
    /\ ~entered_running
    /\ summaries = 0
    /\ error_logged

\* C25: a step of the telemetry thread (an iteration of log_stats with
\* the rate computations it calls) leaves frame_count, saved_images, the
\* timestamp window, start_time, the two last-save times and running as
\* they were.
C25_TelemetryReadOnly ==
    [][t_pc' # t_pc =>
          UNCHANGED <<frame_count, saved_images, frame_times, start_time,
                      timing, running>>]_vars

\* a tick that computed a rate over three timestamps has completed
C25_Witness ==
    /\ running
    /\ t_pc = "test"
    /\ avg_state = "ok"
    /\ frame_count = 3
    /\ Len(frame_times) = 3

\* C26: whatever the interleaving of the capture and telemetry threads,
\* the window length, the oldest and the newest timestamp that enter one
\* instantaneous-rate computation all come from one single state of the
\* window.
C26_NoTornRead ==
    (t_pc = "avg" /\ t_num # 0) =>
        \E w \in w_seen :
            /\ Len(w) = t_num
            /\ w[1] = t_first
            /\ w[Len(w)] = t_last

\* C27: on the 4K path the comparison the code makes,
\* count_small > motion_threshold // 16, decides exactly as
\* count_small * 16 > motion_threshold would, for every count on the
\* downscaled frame and every integer threshold.
C27_ScaledThresholdEquivalent ==
    [][(/\ pc = "decide"
        /\ pc' = "save"
        /\ resolution = "4k"
        /\ CooldownOver(current_time, last_motion_save, motion_cooldown))
       => (should_save' <=>
             MotionPixelsSmall(frame, prev_frame) * 16 > motion_threshold)
      ]_vars

\* a negative threshold that is no multiple of 16, no pixel changed, and
\* the frame was saved
C27_Witness ==
    /\ resolution = "4k"
    /\ pc = "preview"
    /\ motion_threshold = -1
    /\ frame = 0
    /\ prev_frame = 0
    /\ saved_images = 1

C30_NoDivisionByZero ==
    /\ avg_state # "ZeroDivisionError"
    /\ (t_pc = "avg" /\ (t_len < 2 \/ t_last = t_first)) => t_num = 0

\* C31: a failure to apply the optional device tuning (a control refused
\* or timing out, v4l2-ctl missing) does not fail session start: once the
\* start has been attempted, the camera has opened and the video writer
\* has not failed, the camera is open(ed) and the session has entered
\* Running, however the tuning went.
C31_TuningNotFatal ==
    (script = "fhd" /\ pc # "idle" /\ cam_outcome \in {"ok", "mismatch"}
                   /\ vw_outcome \notin {"raise", "unopened"})
        => (entered_running /\ cap # "none")

\* v4l2-ctl is missing and the session runs with the camera open
C31_Witness ==
    /\ v4l2_outcome = "absent"
    /\ running
    /\ cap = "open"
    /\ frame_count = 1

\* C32: each process run has its own session folder: two distinct runs
\* never have the same session folder.
C32_OneFolderPerRun ==
    \A i, j \in DOMAIN run_folders :
        i # j => run_folders[i] # run_folders[j]

C34_ReturnReleasesCamera == pc = "returned" => cap # "open"

\* C35 as stated: on the same frames and timestamps, with the same
\* threshold and cooldown, the two scripts make the same save decision on
\* every frame and keep the same last-motion-save time.
C35_SamePolicy == s_save = f_save /\ s_last = f_last

\* C35 as amended: they do as long as no pixel has changed between two
\* successive frames by more than 15 and at most 25 luminance levels.
C35_SamePolicyOnAlikeCounts ==
    tw_alike => (s_save = f_save /\ s_last = f_last)

\* three frames counted alike by both, and both saved the third
C35_Witness ==
    /\ tw_alike
    /\ tw_n = 3
    /\ s_save
    /\ f_save
    /\ s_last = tw_now
    /\ s_prev # <<0, 0>>

\* C36: after shutdown has set running to False the telemetry thread logs
\* at most one further statistics line, and it leaves its loop.
C36_TelemetryWindsDown ==
    /\ [](late_lines <= 1)
    /\ (log_thread /\ ~running) ~> (t_pc \in {"done", "dead"})

\* the thread has left its loop after one line logged after the stop
C36_Witness ==
    /\ ~running
    /\ t_pc = "done"
    /\ late_lines = 1
    /\ frame_count = 2

\* C37: at most one script process is running at any time, whatever the
\* order of serial START/STOP commands, clicks on Run and Stop and
\* completion notifications.
C37_OneScriptProcess == Cardinality(Processes) <= 1

\* the run has ended and nothing of it is left: its thread is over, its
\* finished_signal is not waiting and the controller does not hold it
RunOver(i) ==
    /\ r_pc[i] = "done"
    /\ script_runner # i
    /\ \A k \in DOMAIN queue : queue[k] # FinishedEvent(i)

\* C38: on_script_finished is executed exactly once for each started run:
\* never more than once, and once when the run is over, whether the
\* script ended by itself or was stopped.
C38_OneReportPerRun ==
    \A i \in 1 .. MaxScriptRuns :
        /\ reports[i] <= 1
        /\ RunOver(i) => reports[i] = 1

\* C39: a serial command that handle_serial_command ignores (START while
\* script_runner is set or while no script is selected, STOP while
\* script_runner is not set, any line that in lower case is neither
\* "start" nor "stop") starts no script, stops none and leaves
\* script_runner, the buttons and the reports as they were.
C39_IgnoredCommandKeepsScripts ==
    [][(/\ h_pc = "idle"
        /\ queue # <<>>
        /\ Head(queue)[1] = "command"
        /\ queue' = Tail(queue)
        /\ IgnoredCommand(CommandLower(Head(queue)[2])))
       => UNCHANGED <<selected_script, script_runner, runs, r_pc, reports,
                      run_btn, stop_btn, h_pc>>]_vars

\* START was ignored while the script of the second run is running
C39_Witness ==
    /\ ignored = "start"
    /\ script_runner = 2
    /\ r_pc[2] = "process"
    /\ runs = 2

\* C40: when no selection is in progress and the monitor thread is in its
\* loop with its flag set, the port it reads is the device selected last.
C40_MonitorReadsSelected ==
    (sel_pc = "idle" /\ m_pc = "loop" /\ m_running /\ serial_port # NoDevice)
        => serial_port = current_device
====
